---- MODULE Spec2Model ----
(***************************************************************************)
(* collabcanvas, the server.                                               *)
(*                                                                         *)
(* Spec: the real-time relay, server/websocket/yjs_server.py.  One handler *)
(* invocation (websocket_endpoint) per connection request, the token gate  *)
(* (authenticate_websocket, services/auth.verify_token), the               *)
(* WebSocketAdapter the handler builds, and the relay the adapter is       *)
(* handed to (websocket_server.serve).  The relay itself is the imported   *)
(* pycrdt.websocket.WebsocketServer: only its call site and the adapter    *)
(* interface it drives are in the repository, so its room bookkeeping is   *)
(* written here from the specification's Room Registry / Relay Engine      *)
(* sections and is marked as such in the comments below.                   *)
(*                                                                         *)
(* SpecAuth: routes/auth.py, refresh_tokens and execute_with_retry.        *)
(*                                                                         *)
(* SpecSharing: routes/boards.py and routes/sharing.py over the tables of  *)
(* models/board.py and models/invite.py.                                   *)
(*                                                                         *)
(* The three share one initial state; each leaves the others' variables    *)
(* as they are.                                                            *)
(***************************************************************************)
EXTENDS Naturals, Sequences, FiniteSets, TLC

VARIABLES
    pc,         \* position of each connection's handler invocation
    token,      \* the `token` query parameter of the request
    room_name,  \* the `room_name` path segment of the request
    user_id,    \* what authenticate_websocket returned
    ws,         \* state of the transport (the framework's WebSocket)
    ops,        \* calls the server made on the transport, in order
    adapter,    \* the WebSocketAdapter built for the connection
    rooms,      \* the relay's registry: room name -> member connections
    inbound,    \* frames the peer sent and the server has not read yet
    delivered,  \* payloads written to the peer by send_bytes
    frames,     \* number of frames the peers have sent so far
    exc,        \* exception travelling out of accept/serve, if any
    outcome,    \* how the handler invocation ended
    rt,         \* routes/auth: each refresh_tokens / execute_with_retry call
    boards,     \* table boards: rows in order of creation, id = position
    members,    \* table board_members: rows (board_id, user_id, role)
    invites,    \* table board_invites: rows in order of creation
    joined,     \* per invite, the memberships committed through it
    req,        \* accept_invite requests between their reads and commit
    resp,       \* the response to the request handled last
    started     \* number of requests of routes/boards, routes/sharing so far

\* the relay's variables, the identity service's, the REST API's
wsVars == <<pc, token, room_name, user_id, ws, ops, adapter, rooms,
            inbound, delivered, frames, exc, outcome>>
authVars == <<rt>>
apiVars == <<boards, members, invites, joined, req, resp, started>>

vars == <<wsVars, authVars, apiVars>>

(***************************************************************************)
(* Bounds and inputs.                                                      *)
(***************************************************************************)
Conns == {"c1", "c2"}
RoomNames == {"board-7", "board-42"}
Msgs == {"m1", "m2"}
\* frames (binary or text) the peers send in one run, all peers together
MaxFrames == 2

\* close codes used by the handler
WS_1008_POLICY_VIOLATION == 1008
WS_1011_INTERNAL_ERROR == 1011

\* Python's None, as the value of an Optional[str]
NONE == "None"
\* a frame that is not a binary frame, and the peer's disconnect
TextFrame == "TEXT"
Disconnect == "DISCONNECT"

(***************************************************************************)
(* Tokens.  `present` is FALSE for a request without a token parameter     *)
(* (Python None).  `form` says what the string is: the empty string, a     *)
(* string that is no JWT, or a JWT with the given signature, expiry, type  *)
(* claim and sub claim.                                                    *)
(***************************************************************************)
Tok(present, form, signed, expired, type, sub) ==
    [present |-> present, form |-> form, signed |-> signed,
     expired |-> expired, type |-> type, sub |-> sub]

NoToken       == Tok(FALSE, "empty", FALSE, FALSE, "access", NONE)
EmptyToken    == Tok(TRUE, "empty", FALSE, FALSE, "access", NONE)
GarbageToken  == Tok(TRUE, "garbage", FALSE, FALSE, "access", NONE)
ValidAccess   == Tok(TRUE, "jwt", TRUE, FALSE, "access", "u1")
ValidRefresh  == Tok(TRUE, "jwt", TRUE, FALSE, "refresh", "u1")
ExpiredAccess == Tok(TRUE, "jwt", TRUE, TRUE, "access", "u1")
ForgedAccess  == Tok(TRUE, "jwt", FALSE, FALSE, "access", "u1")
NoSubAccess   == Tok(TRUE, "jwt", TRUE, FALSE, "access", NONE)

Tokens == {NoToken, EmptyToken, GarbageToken, ValidAccess, ValidRefresh,
           ExpiredAccess, ForgedAccess, NoSubAccess}

\* Python truthiness of an Optional[str] result (None and "" are falsy)
Truthy(s) == s # NONE /\ s # ""

\* Python truthiness of the token parameter: `if token` / `if not token`
TokenTruthy(tok) == tok.present /\ tok.form # "empty"

\* a decode that does not check the exp claim
DecodeOK_NoExpiry(tok) == tok.form = "jwt" /\ tok.signed

\* jwt.decode(token, secret_key, algorithms=[...]) returns the payload
\* (does not raise JWTError)
DecodeOK(tok) == tok.form = "jwt" /\ tok.signed /\ ~tok.expired

\* verify_token without its comparison of the type claim
verify_token_AnyType(tok, token_type) ==
    IF ~DecodeOK(tok) THEN NONE ELSE tok.sub

\* services/auth.verify_token
verify_token(tok, token_type) ==
    IF ~DecodeOK(tok) THEN NONE
    ELSE IF tok.type # token_type THEN NONE
    ELSE tok.sub

\* websocket/yjs_server.authenticate_websocket
authenticate_websocket(tok) ==
    IF ~TokenTruthy(tok) THEN NONE ELSE verify_token(tok, "access")

\* the test without its `token and` part: `if not user_id`
AuthFailed_NoTokenTest(tok, uid) == ~Truthy(uid)

\* the handler's test `if token and not user_id`
AuthFailed(tok, uid) == TokenTruthy(tok) /\ ~Truthy(uid)

\* a rejection that reuses the internal-error code
RejectCode_InternalError == WS_1011_INTERNAL_ERROR

\* the close code of the rejection
RejectCode == WS_1008_POLICY_VIOLATION

(***************************************************************************)
(* The adapter (class WebSocketAdapter).                                   *)
(***************************************************************************)
NoAdapter == [made |-> FALSE, room_name |-> "", closed |-> FALSE]

\* WebSocketAdapter.__init__
NewAdapter(rn) == [made |-> TRUE, room_name |-> rn, closed |-> FALSE]

\* a path that does not come from the adapter's own room name
AdapterPath_Constant(a) == "board-7"

\* WebSocketAdapter.path
AdapterPath(a) == a.room_name

\* send without its `if not self._closed` guard
SendWrites_Always(a) == TRUE

\* WebSocketAdapter.send calls send_bytes only `if not self._closed`
SendWrites(a) == ~a.closed

\* a call on the transport: its name, the close code of a close, and, for
\* a receive_bytes that raised, the frame it met
OpData(name, code, data) == [op |-> name, code |-> code, data |-> data]
Op(name, code) == OpData(name, code, NONE)

\* __anext__ without `self._closed = True` in its WebSocketDisconnect clause
AnextStep_NeverMarks(a, f) ==
    IF f \in Msgs
    THEN [adapter |-> a, signal |-> "return", data |-> f]
    ELSE [adapter |-> a, signal |-> "StopAsyncIteration", data |-> NONE]

\* WebSocketAdapter.__anext__ when receive_bytes meets frame f: the adapter
\* afterwards, how the call ends, and the data it returns
AnextStep(a, f) ==
    IF f \in Msgs
    THEN [adapter |-> a, signal |-> "return", data |-> f]
    ELSE IF f = Disconnect
    THEN [adapter |-> [a EXCEPT !.closed = TRUE],
          signal |-> "StopAsyncIteration", data |-> NONE]
    ELSE [adapter |-> a, signal |-> "StopAsyncIteration", data |-> NONE]

\* recv without `self._closed = True` in its WebSocketDisconnect clause
RecvStep_NeverMarks(a, f) ==
    IF f \in Msgs
    THEN [adapter |-> a, signal |-> "return", data |-> f]
    ELSE [adapter |-> a,
          signal |-> IF f = Disconnect THEN "WebSocketDisconnect"
                     ELSE "Exception",
          data |-> NONE]

\* WebSocketAdapter.recv when receive_bytes meets frame f
RecvStep(a, f) ==
    IF f \in Msgs
    THEN [adapter |-> a, signal |-> "return", data |-> f]
    ELSE IF f = Disconnect
    THEN [adapter |-> [a EXCEPT !.closed = TRUE],
          signal |-> "WebSocketDisconnect", data |-> NONE]
    ELSE [adapter |-> a, signal |-> "Exception", data |-> NONE]

\* `async for message in adapter` over the frames q: the messages yielded,
\* the adapter afterwards, how the iteration ended ("pending": all frames
\* read, the next __anext__ waits) and the frames left unread
RECURSIVE RunAnext(_, _)
RunAnext(a, q) ==
    IF q = <<>>
    THEN [adapter |-> a, out |-> <<>>, signal |-> "pending", rest |-> <<>>]
    ELSE LET r == AnextStep(a, Head(q)) IN
         IF r.signal = "return"
         THEN LET t == RunAnext(r.adapter, Tail(q))
              IN [t EXCEPT !.out = <<r.data>> \o t.out]
         ELSE [adapter |-> r.adapter, out |-> <<>>, signal |-> r.signal,
               rest |-> Tail(q)]

\* repeated `await adapter.recv()` over the frames q, until a call raises
RECURSIVE RunRecv(_, _)
RunRecv(a, q) ==
    IF q = <<>>
    THEN [adapter |-> a, out |-> <<>>, signal |-> "pending", rest |-> <<>>]
    ELSE LET r == RecvStep(a, Head(q)) IN
         IF r.signal = "return"
         THEN LET t == RunRecv(r.adapter, Tail(q))
              IN [t EXCEPT !.out = <<r.data>> \o t.out]
         ELSE [adapter |-> r.adapter, out |-> <<>>, signal |-> r.signal,
               rest |-> Tail(q)]

(***************************************************************************)
(* The REST side: the tasks (requests in flight) and their local state.    *)
(***************************************************************************)
Procs == {"p1", "p2"}

\* a task that has not called refresh_tokens / execute_with_retry
NoCall == [pc |-> "idle"]
\* a task with no accept_invite in flight
NoRequest == [pc |-> "idle"]
\* no request handled yet
NoResponse == [op |-> NONE]

(***************************************************************************)
(* Initial state: no request has arrived, the registry is empty, the       *)
(* tables are empty.                                                       *)
(***************************************************************************)
Init ==
    /\ pc = [c \in Conns |-> "idle"]
    /\ token = [c \in Conns |-> NoToken]
    /\ room_name = [c \in Conns |-> ""]
    /\ user_id = [c \in Conns |-> NONE]
    /\ ws = [c \in Conns |-> "none"]
    /\ ops = [c \in Conns |-> <<>>]
    /\ adapter = [c \in Conns |-> NoAdapter]
    /\ rooms = << >>
    /\ inbound = [c \in Conns |-> <<>>]
    /\ delivered = [c \in Conns |-> <<>>]
    /\ frames = 0
    /\ exc = [c \in Conns |-> NONE]
    /\ outcome = [c \in Conns |-> "none"]
    /\ rt = [p \in Procs |-> NoCall]
    /\ boards = <<>>
    /\ members = {}
    /\ invites = <<>>
    /\ joined = <<>>
    /\ req = [p \in Procs |-> NoRequest]
    /\ resp = NoResponse
    /\ started = 0

(***************************************************************************)
(* The peer (the browser's y-websocket client) and the transport.          *)
(***************************************************************************)
\* the peer sends one frame: a binary payload, or a text frame
PeerSend(c) ==
    /\ ws[c] = "open"
    /\ pc[c] # "done"
    /\ frames < MaxFrames
    /\ frames' = frames + 1
    /\ \E f \in Msgs \cup {TextFrame} :
          inbound' = [inbound EXCEPT ![c] = Append(@, f)]
    /\ UNCHANGED <<pc, token, room_name, user_id, ws, ops, adapter, rooms,
                   delivered, exc, outcome>>
    /\ UNCHANGED <<authVars, apiVars>>

\* the peer closes its end: the disconnect is read after the frames
\* already in flight
PeerClose(c) ==
    /\ ws[c] = "open"
    /\ pc[c] # "done"
    /\ ws' = [ws EXCEPT ![c] = "peer_closed"]
    /\ inbound' = [inbound EXCEPT ![c] = Append(@, Disconnect)]
    /\ UNCHANGED <<pc, token, room_name, user_id, ops, adapter, rooms,
                   delivered, frames, exc, outcome>>
    /\ UNCHANGED <<authVars, apiVars>>

(***************************************************************************)
(* websocket_endpoint, up to the call of serve.                            *)
(***************************************************************************)
\* a request arrives: GET /ws/{room_name}?token=...
Connect(c) ==
    /\ pc[c] = "idle"
    /\ \E tok \in Tokens, rn \in RoomNames :
          /\ token' = [token EXCEPT ![c] = tok]
          /\ room_name' = [room_name EXCEPT ![c] = rn]
    /\ ws' = [ws EXCEPT ![c] = "connecting"]
    /\ pc' = [pc EXCEPT ![c] = "gate"]
    /\ UNCHANGED <<user_id, ops, adapter, rooms, inbound, delivered,
                   frames, exc, outcome>>
    /\ UNCHANGED <<authVars, apiVars>>

\* user_id = authenticate_websocket(token); on failure close(1008), return
Gate(c) ==
    /\ pc[c] = "gate"
    /\ LET uid == authenticate_websocket(token[c]) IN
        /\ user_id' = [user_id EXCEPT ![c] = uid]
        /\ IF AuthFailed(token[c], uid)
           THEN /\ ops' = [ops EXCEPT ![c] = Append(@, Op("close", RejectCode))]
                /\ ws' = [ws EXCEPT ![c] = "closed"]
                /\ pc' = [pc EXCEPT ![c] = "done"]
                /\ outcome' = [outcome EXCEPT ![c] = "rejected"]
           ELSE /\ pc' = [pc EXCEPT ![c] = "admitted"]
                /\ UNCHANGED <<ops, ws, outcome>>
    /\ UNCHANGED <<token, room_name, adapter, rooms, inbound, delivered,
                   frames, exc>>
    /\ UNCHANGED <<authVars, apiVars>>

\* await websocket.accept() completes the upgrade
Accept(c) ==
    /\ pc[c] = "admitted"
    /\ ops' = [ops EXCEPT ![c] = Append(@, Op("accept", 0))]
    /\ ws' = [ws EXCEPT ![c] = "open"]
    /\ pc' = [pc EXCEPT ![c] = "accepted"]
    /\ UNCHANGED <<token, room_name, user_id, adapter, rooms, inbound,
                   delivered, frames, exc, outcome>>
    /\ UNCHANGED <<authVars, apiVars>>

\* await websocket.accept() raises (the handshake fails): the exception is
\* whatever the framework raises, caught by one of the three except clauses;
\* the transport is left in its handshake or is gone
AcceptRaises(c) ==
    /\ pc[c] = "admitted"
    /\ ops' = [ops EXCEPT ![c] = Append(@, Op("accept", 0))]
    /\ \E w \in {"connecting", "peer_closed"} : ws' = [ws EXCEPT ![c] = w]
    /\ \E e \in {"WebSocketDisconnect", "RuntimeError", "Exception"} :
          exc' = [exc EXCEPT ![c] = e]
    /\ pc' = [pc EXCEPT ![c] = "except"]
    /\ UNCHANGED <<token, room_name, user_id, adapter, rooms, inbound,
                   delivered, frames, outcome>>
    /\ UNCHANGED <<authVars, apiVars>>

\* adapter = WebSocketAdapter(websocket, room_name); serve(adapter) is called
MakeAdapter(c) ==
    /\ pc[c] = "accepted"
    /\ adapter' = [adapter EXCEPT ![c] = NewAdapter(room_name[c])]
    /\ pc' = [pc EXCEPT ![c] = "joining"]
    /\ UNCHANGED <<token, room_name, user_id, ws, ops, rooms, inbound,
                   delivered, frames, exc, outcome>>
    /\ UNCHANGED <<authVars, apiVars>>

(***************************************************************************)
(* The relay, websocket_server.serve(adapter): the registry and the loop   *)
(* are the Room Registry and Relay Engine of the specification; every call *)
(* on the adapter goes through the adapter's code above.                   *)
(***************************************************************************)
Members(r) == IF r \in DOMAIN rooms THEN rooms[r] ELSE {}

\* join: the room named by the adapter's path, created if absent
JoinRoom(rs, r, c) ==
    [x \in DOMAIN rs \cup {r} |->
        IF x = r THEN (IF r \in DOMAIN rs THEN rs[r] ELSE {}) \cup {c}
        ELSE rs[x]]

\* leave: the connection is removed, and with auto_clean_rooms=True an
\* empty room is dropped from the registry
LeaveRoom(rs, r, c) ==
    LET kept == {x \in DOMAIN rs : x # r \/ rs[x] \ {c} # {}}
    IN [x \in kept |-> IF x = r THEN rs[x] \ {c} ELSE rs[x]]

Join(c) ==
    /\ pc[c] = "joining"
    /\ rooms' = JoinRoom(rooms, AdapterPath(adapter[c]), c)
    /\ pc' = [pc EXCEPT ![c] = "active"]
    /\ UNCHANGED <<token, room_name, user_id, ws, ops, adapter, inbound,
                   delivered, frames, exc, outcome>>
    /\ UNCHANGED <<authVars, apiVars>>

\* the members a message read from c is sent to
Recipients(c) == Members(AdapterPath(adapter[c])) \ {c}

\* adapter.send(data) on every recipient: send_bytes is called unless the
\* adapter is marked closed, and writes to a transport that is open
SendCalled(d, c) == d \in Recipients(c) /\ SendWrites(adapter[d])

Broadcast(c, m) ==
    /\ ops' = [d \in Conns |->
                 IF d = c THEN Append(ops[d], Op("receive_bytes", 0))
                 ELSE IF SendCalled(d, c)
                      THEN Append(ops[d], Op("send_bytes", 0))
                      ELSE ops[d]]
    /\ delivered' = [d \in Conns |->
                 IF SendCalled(d, c) /\ ws[d] = "open"
                 THEN Append(delivered[d], <<c, m>>)
                 ELSE delivered[d]]

\* one turn of `async for message in adapter`: WebSocketAdapter.__anext__
Anext(c) ==
    /\ pc[c] = "active"
    /\ inbound[c] # <<>>
    /\ LET f == Head(inbound[c])
           r == AnextStep(adapter[c], f) IN
        /\ inbound' = [inbound EXCEPT ![c] = Tail(@)]
        /\ adapter' = [adapter EXCEPT ![c] = r.adapter]
        /\ IF r.signal = "return"
           THEN /\ Broadcast(c, r.data)
                /\ UNCHANGED pc
           ELSE /\ ops' = [ops EXCEPT ![c] =
                              Append(@, OpData("receive_bytes", 0, f))]
                /\ pc' = [pc EXCEPT ![c] = "leaving"]
                /\ UNCHANGED delivered
    /\ UNCHANGED <<token, room_name, user_id, ws, rooms, frames, exc, outcome>>
    /\ UNCHANGED <<authVars, apiVars>>

\* one call of WebSocketAdapter.recv: a failure of receive_bytes is raised
\* to the caller, and leaves serve as an exception
Recv(c) ==
    /\ pc[c] = "active"
    /\ inbound[c] # <<>>
    /\ LET f == Head(inbound[c])
           r == RecvStep(adapter[c], f) IN
        /\ inbound' = [inbound EXCEPT ![c] = Tail(@)]
        /\ adapter' = [adapter EXCEPT ![c] = r.adapter]
        /\ IF r.signal = "return"
           THEN /\ Broadcast(c, r.data)
                /\ UNCHANGED <<pc, exc>>
           ELSE /\ ops' = [ops EXCEPT ![c] =
                              Append(@, OpData("receive_bytes", 0, f))]
                /\ exc' = [exc EXCEPT ![c] = r.signal]
                /\ pc' = [pc EXCEPT ![c] = "unwinding"]
                /\ UNCHANGED delivered
    /\ UNCHANGED <<token, room_name, user_id, ws, rooms, frames, outcome>>
    /\ UNCHANGED <<authVars, apiVars>>

\* a recipient whose send_bytes raises: WebSocketAdapter.send does not
\* catch, so the failure is raised into the relay's broadcast
SendFails(d, c) == SendCalled(d, c) /\ ws[d] # "open"

\* a message is read and its broadcast fails on one recipient; the relay may
\* isolate the failure (Anext, Recv) or let it end the sender's loop, as here
BroadcastRaises(c) ==
    /\ pc[c] = "active"
    /\ inbound[c] # <<>>
    /\ LET r == AnextStep(adapter[c], Head(inbound[c])) IN
        /\ r.signal = "return"
        /\ \E d \in Conns : SendFails(d, c)
        /\ inbound' = [inbound EXCEPT ![c] = Tail(@)]
        /\ Broadcast(c, r.data)
    /\ \E e \in {"WebSocketDisconnect", "RuntimeError", "Exception"} :
          exc' = [exc EXCEPT ![c] = e]
    /\ pc' = [pc EXCEPT ![c] = "unwinding"]
    /\ UNCHANGED <<token, room_name, user_id, ws, adapter, rooms, frames,
                   outcome>>
    /\ UNCHANGED <<authVars, apiVars>>

\* the loop has ended: leave the room; serve returns and so does the handler
Leave(c) ==
    /\ pc[c] = "leaving"
    /\ rooms' = LeaveRoom(rooms, AdapterPath(adapter[c]), c)
    /\ pc' = [pc EXCEPT ![c] = "done"]
    /\ outcome' = [outcome EXCEPT ![c] = "returned"]
    /\ UNCHANGED <<token, room_name, user_id, ws, ops, adapter, inbound,
                   delivered, frames, exc>>
    /\ UNCHANGED <<authVars, apiVars>>

\* an exception leaves the loop: leave the room, the exception leaves serve
Unwind(c) ==
    /\ pc[c] = "unwinding"
    /\ rooms' = LeaveRoom(rooms, AdapterPath(adapter[c]), c)
    /\ pc' = [pc EXCEPT ![c] = "except"]
    /\ UNCHANGED <<token, room_name, user_id, ws, ops, adapter, inbound,
                   delivered, frames, exc, outcome>>
    /\ UNCHANGED <<authVars, apiVars>>

(***************************************************************************)
(* websocket_endpoint, the except clauses.                                 *)
(***************************************************************************)
\* a close(1011) that is not wrapped in try/except: its failure on a
\* transport that is already gone leaves the handler
CloseErrorEscapes_NoTry(w) == w \notin {"open", "connecting"}

\* whether a failure of close(1011) leaves the handler: never, it is caught
\* by `except Exception: pass`
CloseErrorEscapes(w) == FALSE

\* how the handler ends after an except clause that calls close(1011)
EndAfterClose(c) == IF CloseErrorEscapes(ws[c]) THEN "raised" ELSE "returned"

\* await websocket.close(code=1011, ...) inside try/except Exception: pass.
\* close on a transport that is already gone raises, which is swallowed.
CloseOnError(c) ==
    /\ ops' = [ops EXCEPT ![c] = Append(@, Op("close", WS_1011_INTERNAL_ERROR))]
    /\ ws' = [ws EXCEPT ![c] =
                IF @ \in {"open", "connecting"} THEN "closed" ELSE @]

\* except WebSocketDisconnect: log only
OnDisconnect(c) ==
    /\ pc[c] = "except"
    /\ exc[c] = "WebSocketDisconnect"
    /\ pc' = [pc EXCEPT ![c] = "done"]
    /\ outcome' = [outcome EXCEPT ![c] = "returned"]
    /\ UNCHANGED <<token, room_name, user_id, ws, ops, adapter, rooms,
                   inbound, delivered, frames, exc>>
    /\ UNCHANGED <<authVars, apiVars>>

\* a handler without its `except RuntimeError` clause for this error: the
\* exception leaves the handler
OnRuntimeError_Reraise(c) ==
    /\ pc[c] = "except"
    /\ exc[c] = "RuntimeError"
    /\ pc' = [pc EXCEPT ![c] = "done"]
    /\ outcome' = [outcome EXCEPT ![c] = "raised"]
    /\ UNCHANGED <<token, room_name, user_id, ws, ops, adapter, rooms,
                   inbound, delivered, frames, exc>>
    /\ UNCHANGED <<authVars, apiVars>>

\* except RuntimeError: log, close(1011)
OnRuntimeError(c) ==
    /\ pc[c] = "except"
    /\ exc[c] = "RuntimeError"
    /\ CloseOnError(c)
    /\ pc' = [pc EXCEPT ![c] = "done"]
    /\ outcome' = [outcome EXCEPT ![c] = EndAfterClose(c)]
    /\ UNCHANGED <<token, room_name, user_id, adapter, rooms, inbound,
                   delivered, frames, exc>>
    /\ UNCHANGED <<authVars, apiVars>>

\* an except clause that hands the adapter to serve again instead of ending
OnException_Retry(c) ==
    /\ pc[c] = "except"
    /\ exc[c] = "Exception"
    /\ pc' = [pc EXCEPT ![c] = "joining"]
    /\ exc' = [exc EXCEPT ![c] = NONE]
    /\ UNCHANGED <<token, room_name, user_id, ws, ops, adapter, rooms,
                   inbound, delivered, frames, outcome>>
    /\ UNCHANGED <<authVars, apiVars>>

\* except Exception: log, close(1011)
OnException(c) ==
    /\ pc[c] = "except"
    /\ exc[c] = "Exception"
    /\ CloseOnError(c)
    /\ pc' = [pc EXCEPT ![c] = "done"]
    /\ outcome' = [outcome EXCEPT ![c] = EndAfterClose(c)]
    /\ UNCHANGED <<token, room_name, user_id, adapter, rooms, inbound,
                   delivered, frames, exc>>
    /\ UNCHANGED <<authVars, apiVars>>

Next ==
    \E c \in Conns :
        \/ Connect(c)
        \/ Gate(c)
        \/ Accept(c)
        \/ AcceptRaises(c)
        \/ MakeAdapter(c)
        \/ Join(c)
        \/ PeerSend(c)
        \/ PeerClose(c)
        \/ Anext(c)
        \/ Recv(c)
        \/ BroadcastRaises(c)
        \/ Leave(c)
        \/ Unwind(c)
        \/ OnDisconnect(c)
        \/ OnRuntimeError(c)
        \/ OnException(c)

Spec == Init /\ [][Next]_vars

(***************************************************************************)
(* Properties.                                                             *)
(***************************************************************************)
OpsOf(c) == {ops[c][i] : i \in 1..Len(ops[c])}
InSomeRoom(c) == \E r \in DOMAIN rooms : c \in rooms[r]

\* a token that is presented (a non-empty value, the handler's own test of
\* presence) and does not verify: it is malformed (no JWT), wrongly signed
\* or expired, or it is not an access token naming a user
BadToken(tok) ==
    /\ tok.present
    /\ tok.form # "empty"
    /\ ~(/\ tok.form = "jwt" /\ tok.signed /\ ~tok.expired
         /\ tok.type = "access" /\ tok.sub # NONE)

\* C1: a connection whose presented token does not verify (expired,
\* malformed, wrongly signed, or no access token) is never accepted, never gets an adapter, is never handed to
\* serve and is in no room, whatever the other connections do.  (A token
\* parameter with an empty value is treated by the handler as no token;
\* that case is the subject of C20.)
C1_BadTokenNeverAdmitted ==
    \A c \in Conns :
        BadToken(token[c]) =>
            /\ Op("accept", 0) \notin OpsOf(c)
            /\ ws[c] # "open"
            /\ ~adapter[c].made
            /\ pc[c] \in {"gate", "done"}
            /\ ~InSomeRoom(c)

\* a bad-token request has been turned away while another connection is a
\* member of a room
C1_Witness ==
    \E c, d \in Conns :
        /\ BadToken(token[c]) /\ pc[c] = "done"
        /\ d # c /\ InSomeRoom(d)

\* C2: a rejected connection sees exactly one call on its transport, the
\* close with code 1008, made before any accept, receive or send; the
\* handler returns without an exception; 1008 is not the internal-error
\* code 1011, and 1011 is never used on a rejected connection.
C2_RejectionIsPolicyClose ==
    /\ WS_1008_POLICY_VIOLATION # WS_1011_INTERNAL_ERROR
    /\ \A c \in Conns :
        /\ outcome[c] = "rejected" =>
              /\ ops[c] = <<Op("close", WS_1008_POLICY_VIOLATION)>>
              /\ pc[c] = "done"
              /\ exc[c] = NONE
              /\ ws[c] = "closed"
        /\ Op("close", WS_1008_POLICY_VIOLATION) \in OpsOf(c) =>
              outcome[c] = "rejected"

\* a request has been rejected, and another connection was closed on an
\* internal error
C2_Witness ==
    \E c, d \in Conns :
        /\ outcome[c] = "rejected"
        /\ Op("close", WS_1011_INTERNAL_ERROR) \in OpsOf(d)

\* C3: a request without a token parameter is authenticated as anonymous
\* (no identity), is not rejected, is taken through accept, gets an adapter
\* whose path is the request's room name, and while served is a member of
\* that room and of no other: the same as a request with a valid access
\* token, which differs only in the identity returned.
Admissible(tok) == ~tok.present \/ tok = ValidAccess

C3_AnonymousAdmitted ==
    \A c \in Conns :
        (pc[c] \notin {"idle", "gate"} /\ Admissible(token[c])) =>
            /\ user_id[c] = (IF token[c].present THEN token[c].sub ELSE NONE)
            /\ outcome[c] # "rejected"
            /\ Op("close", WS_1008_POLICY_VIOLATION) \notin OpsOf(c)
            /\ pc[c] # "admitted" => Op("accept", 0) \in OpsOf(c)
            /\ pc[c] \in {"joining", "active", "leaving", "unwinding"} =>
                  /\ adapter[c].made
                  /\ AdapterPath(adapter[c]) = room_name[c]
            /\ pc[c] = "active" =>
                  /\ c \in Members(room_name[c])
                  /\ \A r \in DOMAIN rooms : c \in rooms[r] => r = room_name[c]

\* an anonymous connection and one with a valid token are members of the
\* same room
C3_Witness ==
    \E c, d \in Conns :
        /\ ~token[c].present /\ pc[c] = "active"
        /\ token[d] = ValidAccess /\ pc[d] = "active"
        /\ room_name[c] = room_name[d]
        /\ {c, d} \subseteq Members(room_name[c])

\* C8: once the handler of an admitted connection that was handed to the
\* relay has returned, the connection is in no room and its transport is
\* not open.
C8_CleanupOnLoopExit ==
    \A c \in Conns :
        (pc[c] = "done" /\ adapter[c].made) =>
            /\ ~InSomeRoom(c)
            /\ ws[c] # "open"

\* the calls of the given name in a connection's log
CallsOf(c, name) == {i \in 1..Len(ops[c]) : ops[c][i].op = name}

\* a receive_bytes call of the log that raised on meeting one of the frames
FailedReceive(o, fs) == o.op = "receive_bytes" /\ o.data \in fs

\* C13: closing a connection twice is harmless.  The server calls close at
\* most once per connection and makes no call on the transport after it; a
\* close(1011) issued after the peer has already closed raises nothing out
\* of the handler; and a connection is removed from its room at most once:
\* removal takes it to the except clauses or the end of the handler, where
\* it stays and is never a member again.
C13_StateOk ==
    \A c \in Conns :
        /\ Cardinality(CallsOf(c, "close")) <= 1
        /\ \A i \in CallsOf(c, "close") : i = Len(ops[c])
        /\ outcome[c] # "raised"
        /\ pc[c] \in {"except", "done"} => ~InSomeRoom(c)

C13_StepOk ==
    \A c \in Conns :
        /\ (InSomeRoom(c) /\ ~InSomeRoom(c)') => pc'[c] \in {"except", "done"}
        /\ pc[c] \in {"except", "done"} => pc'[c] \in {"except", "done"}

C13_CloseIdempotent == []C13_StateOk /\ [][C13_StepOk]_vars

\* the handler has called close(1011) on a served connection whose peer had
\* already closed the transport
C13_Witness ==
    \E c \in Conns :
        /\ adapter[c].made /\ pc[c] = "done"
        /\ ws[c] = "peer_closed"
        /\ Op("close", WS_1011_INTERNAL_ERROR) \in OpsOf(c)

\* C15: a connection is a member of at most one room, the one named by the
\* room_name of its request, which is also its adapter's path; the path of
\* an adapter never changes once the adapter exists.
C15_StateOk ==
    \A c \in Conns :
        /\ Cardinality({r \in DOMAIN rooms : c \in rooms[r]}) <= 1
        /\ \A r \in DOMAIN rooms : c \in rooms[r] =>
              /\ r = room_name[c]
              /\ adapter[c].made
        /\ adapter[c].made => AdapterPath(adapter[c]) = room_name[c]

C15_StepOk ==
    \A c \in Conns :
        adapter[c].made =>
            /\ adapter'[c].made
            /\ AdapterPath(adapter'[c]) = AdapterPath(adapter[c])
            /\ room_name'[c] = room_name[c]

C15_OneRoomPerConnection == []C15_StateOk /\ [][C15_StepOk]_vars

\* the two connections are members of two different rooms
C15_Witness ==
    \E c, d \in Conns :
        /\ room_name[c] # room_name[d]
        /\ c \in Members(room_name[c])
        /\ d \in Members(room_name[d])

\* send_bytes is called once per send on an adapter not marked closed, and
\* on an open transport each call writes one payload
SendWritesOnce(c) ==
    /\ Len(delivered[c]) <= Cardinality(CallsOf(c, "send_bytes"))
    /\ ws[c] = "open" =>
          Len(delivered[c]) = Cardinality(CallsOf(c, "send_bytes"))

\* no send_bytes call follows a receive that failed on one of the frames fs
NoSendAfter(c, fs) ==
    \A i, j \in 1..Len(ops[c]) :
        (i < j /\ FailedReceive(ops[c][i], fs)) => ops[c][j].op # "send_bytes"

\* C16, as stated: after a receive that failed with the peer's disconnect
\* or with a transport error, no later send writes on the transport; while
\* the connection is open each send writes once.
C16_NoSendAfterAnyFailure ==
    \A c \in Conns :
        /\ NoSendAfter(c, {Disconnect, TextFrame})
        /\ SendWritesOnce(c)

\* C16, amended: after a receive that failed with the peer's disconnect
\* (WebSocketDisconnect) the adapter is marked closed and no later send
\* calls send_bytes; while the connection is open each send writes once.
C16_NoSendAfterDisconnect ==
    \A c \in Conns :
        /\ NoSendAfter(c, {Disconnect})
        /\ adapter[c].closed =>
              \E i \in 1..Len(ops[c]) : FailedReceive(ops[c][i], {Disconnect})
        /\ SendWritesOnce(c)

\* an adapter that was written to once has since observed the disconnect,
\* is still a room member, and another member is about to broadcast
C16_Witness ==
    \E c, d \in Conns :
        /\ c # d
        /\ adapter[c].closed /\ Len(delivered[c]) = 1
        /\ pc[d] = "active" /\ c \in Recipients(d)
        /\ inbound[d] # <<>> /\ Head(inbound[d]) \in Msgs

\* the longest prefix of q made of binary messages
RECURSIVE MsgPrefix(_)
MsgPrefix(q) ==
    IF q = <<>> \/ Head(q) \notin Msgs THEN <<>>
    ELSE <<Head(q)>> \o MsgPrefix(Tail(q))

\* C17: iterating an adapter over the unread frames yields the messages in
\* arrival order up to the first frame that is no message, and ends there
\* with StopAsyncIteration, never with an error; the adapter is then marked
\* closed exactly when that frame was the peer's disconnect.  The relay's
\* loop agrees: when it has ended through __anext__, no exception is
\* travelling and the mark tells the two endings apart.
C17_IterationView ==
    \A c \in Conns :
        /\ (adapter[c].made /\ ~adapter[c].closed) =>
              LET r == RunAnext(adapter[c], inbound[c])
                  n == Len(MsgPrefix(inbound[c])) IN
              /\ r.out = MsgPrefix(inbound[c])
              /\ r.signal \in {"pending", "StopAsyncIteration"}
              /\ r.signal = "pending" <=> n = Len(inbound[c])
              /\ r.signal = "StopAsyncIteration" =>
                    /\ r.adapter.closed <=> inbound[c][n + 1] = Disconnect
                    /\ r.rest = SubSeq(inbound[c], n + 2, Len(inbound[c]))
        /\ pc[c] = "leaving" =>
              /\ exc[c] = NONE
              /\ ops[c] # <<>>
              /\ FailedReceive(ops[c][Len(ops[c])], {Disconnect, TextFrame})
                    \/ ops[c][Len(ops[c])].op = "send_bytes"
              /\ adapter[c].closed <=>
                    \E i \in 1..Len(ops[c]) :
                        FailedReceive(ops[c][i], {Disconnect})

\* one iteration has ended on the peer's disconnect and another on a
\* transport error
C17_Witness ==
    \E c, d \in Conns :
        /\ pc[c] = "leaving" /\ adapter[c].closed
        /\ pc[d] = "leaving" /\ ~adapter[d].closed

\* where a connection stands in Admitted -> Active -> Leaving -> Closed
Stage(c) ==
    CASE pc[c] \in {"idle", "gate"} -> 0
      [] pc[c] \in {"admitted", "accepted", "joining"} -> 1
      [] pc[c] = "active" -> 2
      [] pc[c] \in {"leaving", "unwinding", "except"} -> 3
      [] OTHER -> 4

\* C18: a connection only moves forward through Admitted, Active, Leaving,
\* Closed.  It is a room member only from Active until it has left; it
\* enters a room only on the step from Admitted to Active; a receive that
\* fails (peer close or error) and an exception raised in the loop end
\* Active; a closed connection stays closed and outside every room.
C18_StateOk ==
    \A c \in Conns :
        /\ InSomeRoom(c) => pc[c] \in {"active", "leaving", "unwinding"}
        /\ pc[c] = "active" => InSomeRoom(c)

C18_StepOk ==
    \A c \in Conns :
        /\ Stage(c)' >= Stage(c)
        /\ (~InSomeRoom(c) /\ InSomeRoom(c)') =>
              (pc[c] = "joining" /\ pc'[c] = "active")
        /\ (pc[c] = "active" /\ Len(ops'[c]) = Len(ops[c]) + 1
              /\ FailedReceive(ops'[c][Len(ops'[c])], {Disconnect, TextFrame}))
              => pc'[c] \in {"leaving", "unwinding"}
        /\ (pc[c] = "active" /\ exc'[c] # exc[c]) => pc'[c] = "unwinding"
        /\ pc[c] = "done" => (pc'[c] = "done" /\ ~InSomeRoom(c)')

C18_StateMachine == []C18_StateOk /\ [][C18_StepOk]_vars

\* a connection has gone through Active and Leaving and is closed, out of
\* its room, while the other one is still active
C18_Witness ==
    \E c, d \in Conns :
        /\ pc[c] = "done" /\ adapter[c].made /\ ~InSomeRoom(c)
        /\ Op("receive_bytes", 0) \in OpsOf(c)
        /\ pc[d] = "active"

\* C19: over the same unread frames, repeated recv() and iteration yield
\* the same messages in the same order, stop at the same frame and leave
\* the adapter in the same state; only the way the end is signalled differs
\* (WebSocketDisconnect or the error itself, against StopAsyncIteration).
C19_RecvEqualsIteration ==
    \A c \in Conns :
        adapter[c].made =>
            LET i == RunAnext(adapter[c], inbound[c])
                r == RunRecv(adapter[c], inbound[c]) IN
            /\ i.out = r.out
            /\ i.rest = r.rest
            /\ i.adapter = r.adapter
            /\ i.signal = "pending" <=> r.signal = "pending"
            /\ i.signal # "pending" =>
                  /\ i.signal = "StopAsyncIteration"
                  /\ r.signal \in {"WebSocketDisconnect", "Exception"}

\* an open adapter has a message and then the peer's disconnect to read
C19_Witness ==
    \E c \in Conns :
        /\ adapter[c].made /\ ~adapter[c].closed
        /\ Len(inbound[c]) = 2
        /\ inbound[c][1] \in Msgs /\ inbound[c][2] = Disconnect

\* a token value that does not verify, the empty value included
Unverifiable(tok) ==
    /\ tok.present
    /\ ~(/\ tok.form = "jwt" /\ tok.signed /\ ~tok.expired
         /\ tok.type = "access" /\ tok.sub # NONE)

\* C20: every request that presents a token value which does not verify,
\* the empty value included, is rejected; only a request without any token
\* parameter is admitted as anonymous.
C20_EmptyTokenRejected ==
    \A c \in Conns :
        pc[c] \notin {"idle", "gate"} =>
            /\ Unverifiable(token[c]) => outcome[c] = "rejected"
            /\ (user_id[c] = NONE /\ outcome[c] # "rejected") => ~token[c].present

(***************************************************************************)
(* routes/auth.py: refresh_tokens and execute_with_retry.  A task calls    *)
(* refresh_tokens with the token of its request body, or it calls          *)
(* execute_with_retry with a max_retries of its own; every execution of    *)
(* the query returns, raises OperationalError or raises something else.    *)
(***************************************************************************)
\* `max_retries: int = 3`
DEFAULT_MAX_RETRIES == 3
\* largest max_retries execute_with_retry is called with
MaxRetriesArg == 3

HTTP_401_UNAUTHORIZED == 401
HTTP_503_SERVICE_UNAVAILABLE == 503

TokenTypes == {"access", "refresh"}
\* RefreshRequest.refresh_token is a required str
BodyTokens == {tok \in Tokens : tok.present}

\* a call of execute_with_retry at its first iteration
NewCall(caller, tok, n) ==
    [pc |-> "execute", caller |-> caller, token |-> tok, max_retries |-> n,
     attempt |-> 0, last_error |-> NONE, executions |-> 0, sleeps |-> 0,
     rollbacks |-> 0, result |-> NONE, response |-> 0]

\* a retry after every OperationalError, the last attempt's included
RetryAllowed_Always(attempt, max_retries) == TRUE

\* `if attempt < max_retries - 1`
RetryAllowed(attempt, max_retries) == attempt + 1 < max_retries

\* what refresh_tokens answers once execute_with_retry has ended: 503 for
\* an OperationalError, 401 when the user is gone, 200 with new tokens;
\* 500 stands for an exception that leaves the handler
RefreshResponse(result, user_found) ==
    IF result = "OperationalError" THEN HTTP_503_SERVICE_UNAVAILABLE
    ELSE IF result # "return" THEN 500
    ELSE IF user_found THEN 200 ELSE HTTP_401_UNAUTHORIZED

\* how a call ends: pc, result and, for refresh_tokens, the response
EndCall(r, result, user_found) ==
    [r EXCEPT !.pc = "done", !.result = result,
              !.response = IF r.caller = "refresh_tokens"
                           THEN RefreshResponse(result, user_found) ELSE 0]

\* POST /api/auth/refresh, up to the call of execute_with_retry
refresh_tokens(p) ==
    /\ rt[p].pc = "idle"
    /\ \E tok \in BodyTokens :
          LET uid == verify_token(tok, "refresh") IN
          IF ~Truthy(uid)
          THEN rt' = [rt EXCEPT ![p] =
                        [NewCall("refresh_tokens", tok, DEFAULT_MAX_RETRIES)
                            EXCEPT !.pc = "done",
                                   !.response = HTTP_401_UNAUTHORIZED]]
          ELSE rt' = [rt EXCEPT ![p] =
                        NewCall("refresh_tokens", tok, DEFAULT_MAX_RETRIES)]
    /\ UNCHANGED <<wsVars, apiVars>>

\* execute_with_retry(db, query, max_retries) called with its own max_retries
execute_with_retry(p) ==
    /\ rt[p].pc = "idle"
    /\ \E n \in 0..MaxRetriesArg :
          rt' = [rt EXCEPT ![p] = NewCall("execute_with_retry", NoToken, n)]
    /\ UNCHANGED <<wsVars, apiVars>>

\* one iteration of `for attempt in range(max_retries)`
Attempt(p) ==
    /\ rt[p].pc = "execute"
    /\ rt[p].attempt < rt[p].max_retries
    /\ \E o \in {"return", "OperationalError", "Exception"},
          user_found \in BOOLEAN :
          LET r == [rt[p] EXCEPT !.executions = @ + 1] IN
          IF o = "return" \/ o = "Exception"
          THEN rt' = [rt EXCEPT ![p] = EndCall(r, o, user_found)]
          ELSE IF RetryAllowed(r.attempt, r.max_retries)
          THEN rt' = [rt EXCEPT ![p] =
                        [r EXCEPT !.last_error = o, !.sleeps = @ + 1,
                                  !.rollbacks = @ + 1, !.attempt = @ + 1]]
          ELSE rt' = [rt EXCEPT ![p] =
                        EndCall([r EXCEPT !.last_error = o], o, user_found)]
    /\ UNCHANGED <<wsVars, apiVars>>

\* the loop ends without a return or a raise: `raise last_error`, which is
\* a TypeError when no attempt was made (last_error is None)
LoopExhausted(p) ==
    /\ rt[p].pc = "execute"
    /\ rt[p].attempt >= rt[p].max_retries
    /\ rt' = [rt EXCEPT ![p] =
                EndCall(rt[p], IF rt[p].last_error = NONE THEN "TypeError"
                               ELSE rt[p].last_error, FALSE)]
    /\ UNCHANGED <<wsVars, apiVars>>

NextAuth ==
    \E p \in Procs :
        \/ refresh_tokens(p)
        \/ execute_with_retry(p)
        \/ Attempt(p)
        \/ LoopExhausted(p)

\* the awaited execute, sleep and rollback all complete (the driver's
\* command_timeout bounds each query), so a call in its loop goes on
SpecAuth ==
    /\ Init
    /\ [][NextAuth]_vars
    /\ \A p \in Procs : WF_vars(Attempt(p) \/ LoopExhausted(p))

\* a token that verifies as a token of type ty
VerifiesAs(tok, ty) ==
    /\ tok.form = "jwt" /\ tok.signed /\ ~tok.expired
    /\ tok.type = ty

\* C21: verify_token(token, expected_type) gives the token's sub exactly
\* when the token is a correctly signed, unexpired JWT whose type claim is
\* expected_type, and None for every other token; the websocket gate
\* rejects a valid refresh token as it rejects a malformed one; the refresh
\* endpoint answers 401 to every token that is no valid refresh token, a
\* valid access token included, without running its query.
C21_TokenTypesApart ==
    /\ \A tok \in BodyTokens, ty \in TokenTypes :
          verify_token(tok, ty) = IF VerifiesAs(tok, ty) THEN tok.sub ELSE NONE
    /\ authenticate_websocket(ValidRefresh) = NONE
    /\ AuthFailed(ValidRefresh, authenticate_websocket(ValidRefresh))
    /\ AuthFailed(GarbageToken, authenticate_websocket(GarbageToken))
    /\ \A p \in Procs :
          (rt[p].pc # "idle" /\ rt[p].caller = "refresh_tokens") =>
              IF VerifiesAs(rt[p].token, "refresh") /\ rt[p].token.sub # NONE
              THEN rt[p].pc = "done" => rt[p].executions > 0
              ELSE /\ rt[p].pc = "done"
                   /\ rt[p].response = HTTP_401_UNAUTHORIZED
                   /\ rt[p].executions = 0

\* the refresh endpoint has refused a valid access token, and has run its
\* query for a valid refresh token
C21_Witness ==
    \E p, q \in Procs :
        /\ rt[p].pc = "done" /\ rt[p].caller = "refresh_tokens"
        /\ rt[p].token = ValidAccess
        /\ rt[p].response = HTTP_401_UNAUTHORIZED
        /\ rt[q].pc = "done" /\ rt[q].caller = "refresh_tokens"
        /\ rt[q].token = ValidRefresh /\ rt[q].response = 200

\* C27: execute_with_retry runs the query at most max_retries times and
\* ends.  It waits and rolls back once after each failed execution that is
\* followed by another, never after the last; it returns at the first
\* execution that succeeds; it goes on only after an OperationalError; it
\* raises OperationalError only from the execution number max_retries; any
\* other exception ends it at the execution that raised it.
C27_StateOk ==
    \A p \in Procs :
        rt[p].pc # "idle" =>
            LET r == rt[p] IN
            /\ r.executions <= r.max_retries
            /\ r.sleeps = r.rollbacks
            /\ r.pc = "execute" =>
                  (r.sleeps = r.executions /\ r.attempt = r.executions)
            /\ (r.pc = "done" /\ r.executions > 0) =>
                  /\ r.sleeps = r.executions - 1
                  /\ r.result \in {"return", "OperationalError", "Exception"}
                  /\ r.result = "OperationalError" =>
                        r.executions = r.max_retries
            /\ (r.pc = "done" /\ r.executions = 0) =>
                  \/ r.response = HTTP_401_UNAUTHORIZED
                  \/ (r.max_retries = 0 /\ r.result = "TypeError")

C27_StepOk ==
    \A p \in Procs :
        (rt[p].pc = "execute" /\ rt'[p] # rt[p]) =>
            /\ rt'[p].executions <= rt[p].executions + 1
            /\ rt'[p].pc = "execute" =>
                  /\ rt'[p].executions = rt[p].executions + 1
                  /\ rt'[p].last_error = "OperationalError"
                  /\ rt'[p].executions < rt'[p].max_retries
            /\ rt'[p].pc \in {"execute", "done"}

C27_RetryTerminates ==
    /\ []C27_StateOk
    /\ [][C27_StepOk]_vars
    /\ \A p \in Procs : (rt[p].pc = "execute") ~> (rt[p].pc = "done")

\* refresh_tokens has answered 503 after three failed executions and two
\* waits, and another call has returned at its second execution
C27_Witness ==
    \E p, q \in Procs :
        /\ rt[p].pc = "done" /\ rt[p].result = "OperationalError"
        /\ rt[p].executions = DEFAULT_MAX_RETRIES /\ rt[p].sleeps = 2
        /\ rt[p].response = HTTP_503_SERVICE_UNAVAILABLE
        /\ rt[q].pc = "done" /\ rt[q].result = "return"
        /\ rt[q].executions = 2

(***************************************************************************)
(* websocket_endpoint: what leaves the handler.                            *)
(***************************************************************************)
\* C22: once accept has been called, the handler ends by returning,
\* whatever accept or serve raised.  After a WebSocketDisconnect it makes
\* no further call on the transport; after a RuntimeError or any other
\* exception it calls close(1011) exactly once, as its last call, and
\* returns even when that close fails on a transport that is gone.
C22_NoFailureEscapes ==
    \A c \in Conns :
        /\ outcome[c] # "raised"
        /\ (pc[c] = "done" /\ Op("accept", 0) \in OpsOf(c)) =>
              /\ outcome[c] = "returned"
              /\ exc[c] \in {NONE, "WebSocketDisconnect"} =>
                    CallsOf(c, "close") = {}
              /\ exc[c] \in {"RuntimeError", "Exception"} =>
                    /\ CallsOf(c, "close") = {Len(ops[c])}
                    /\ ops[c][Len(ops[c])].code = WS_1011_INTERNAL_ERROR

\* accept raised a RuntimeError with the transport gone, the close(1011)
\* was attempted and the handler returned; the other handler ended on a
\* disconnect raised by serve
C22_Witness ==
    \E c, d \in Conns :
        /\ pc[c] = "done" /\ ~adapter[c].made
        /\ exc[c] = "RuntimeError" /\ ws[c] = "peer_closed"
        /\ Op("close", WS_1011_INTERNAL_ERROR) \in OpsOf(c)
        /\ outcome[c] = "returned"
        /\ pc[d] = "done" /\ adapter[d].made
        /\ exc[d] = "WebSocketDisconnect" /\ outcome[d] = "returned"

(***************************************************************************)
(* routes/boards.py and routes/sharing.py over the tables of models/.      *)
(* Every request runs in a session of its own.  accept_invite is taken in  *)
(* two steps, its reads and checks and then its commit, so that requests   *)
(* interleave between the two; the other handlers are taken in one step.   *)
(* A board's id is its position in `boards`, an invite's its position in   *)
(* `invites`.                                                              *)
(***************************************************************************)
Users == {"u1", "u2", "u3"}
\* requests handled in one run
MaxRequests == 4

\* the ids the boards and the invites of a run get, in order of creation
BoardIds == {1, 2}
InviteIds == {1}
\* InviteCreate.max_uses: 0 stands for None (no limit)
MaxUsesInputs == {0, 1}

\* the roles create_invite and update_member_role accept, and the values a
\* request body may carry
Roles == {"editor", "viewer"}
RoleInputs == {"editor", "viewer", "owner"}

\* a user_id path parameter: the user it denotes and whether the string is
\* the canonical text of the UUID (what str(uuid) gives) or another
\* spelling of the same UUID (upper case, say), which the database reads
\* as the same value
Targets == [id : Users, canonical : BOOLEAN]

\* `str(board.owner_id) == user_id`: equality of strings
IsOwnerPath(owner_id, t) == t.id = owner_id /\ t.canonical

\* `BoardMember.user_id == user_id` in a query: equality of UUID values
RowMatches(m, b, t) == m.board_id = b /\ m.user_id = t.id

NewBoard(u) == [owner_id |-> u, deleted_at |-> NONE, is_public |-> FALSE]
Member(b, u, role) == [board_id |-> b, user_id |-> u, role |-> role]

Exists(b) == b \in 1..Len(boards)
Deleted(b) == Exists(b) /\ boards[b].deleted_at # NONE
IsMember(b, u) == \E m \in members : m.board_id = b /\ m.user_id = u

\* the query of the helpers without `Board.deleted_at.is_(None)`
Found_DeletedToo(b) == Exists(b)

\* select(Board).where(Board.id == board_id, Board.deleted_at.is_(None))
Found(b) == Exists(b) /\ boards[b].deleted_at = NONE

\* routes/boards.get_board_with_access: the status it ends with
get_board_with_access(b, u, require_owner) ==
    IF ~Found(b) THEN 404
    ELSE IF require_owner /\ boards[b].owner_id # u THEN 403
    ELSE IF /\ boards[b].owner_id # u
            /\ ~IsMember(b, u)
            /\ ~boards[b].is_public THEN 403
    ELSE 200

\* routes/sharing.get_board_as_owner: the status it ends with
get_board_as_owner(b, u) ==
    IF ~Found(b) THEN 404
    ELSE IF boards[b].owner_id # u THEN 403
    ELSE 200

\* what list_boards returns to u
ListBoards(u) ==
    {b \in 1..Len(boards) :
        /\ boards[b].deleted_at = NONE
        /\ (boards[b].owner_id = u \/ IsMember(b, u))}

\* list_members: 404, 403 or the rows
list_members_status(b, u) ==
    IF ~Found(b) THEN 404
    ELSE IF boards[b].owner_id # u /\ ~IsMember(b, u) THEN 403
    ELSE 200

\* the response to a request
Response(op, u, b, status, detail) ==
    [op |-> op, user |-> u, board |-> b, status |-> status,
     detail |-> detail, body |-> {}]

\* a request is taken up
Begin == started < MaxRequests /\ started' = started + 1

(***************************************************************************)
(* routes/boards.py                                                        *)
(***************************************************************************)
create_board(u) ==
    /\ Begin
    /\ Len(boards) + 1 \in BoardIds
    /\ boards' = Append(boards, NewBoard(u))
    /\ members' = members \cup {Member(Len(boards) + 1, u, "owner")}
    /\ resp' = Response("create_board", u, Len(boards) + 1, 201, NONE)
    /\ UNCHANGED <<invites, joined, req>>
    /\ UNCHANGED <<wsVars, authVars>>

list_boards(u) ==
    /\ Begin
    /\ resp' = [Response("list_boards", u, 0, 200, NONE)
                   EXCEPT !.body = ListBoards(u)]
    /\ UNCHANGED <<boards, members, invites, joined, req>>
    /\ UNCHANGED <<wsVars, authVars>>

get_board(u, b) ==
    /\ Begin
    /\ resp' = Response("get_board", u, b,
                        get_board_with_access(b, u, FALSE), NONE)
    /\ UNCHANGED <<boards, members, invites, joined, req>>
    /\ UNCHANGED <<wsVars, authVars>>

update_board(u, b) ==
    /\ Begin
    /\ LET st == get_board_with_access(b, u, TRUE) IN
        /\ resp' = Response("update_board", u, b, st, NONE)
        /\ IF st = 200
           THEN \E pub \in BOOLEAN :
                   boards' = [boards EXCEPT ![b].is_public = pub]
           ELSE UNCHANGED boards
    /\ UNCHANGED <<members, invites, joined, req>>
    /\ UNCHANGED <<wsVars, authVars>>

delete_board(u, b) ==
    /\ Begin
    /\ LET st == get_board_with_access(b, u, TRUE) IN
        IF st = 200
        THEN /\ boards' = [boards EXCEPT ![b].deleted_at = "utcnow"]
             /\ resp' = Response("delete_board", u, b, 204, NONE)
        ELSE /\ resp' = Response("delete_board", u, b, st, NONE)
             /\ UNCHANGED boards
    /\ UNCHANGED <<members, invites, joined, req>>
    /\ UNCHANGED <<wsVars, authVars>>

duplicate_board(u, b) ==
    /\ Begin
    /\ LET st == get_board_with_access(b, u, FALSE) IN
        IF st = 200
        THEN /\ Len(boards) + 1 \in BoardIds
             /\ boards' = Append(boards, NewBoard(u))
             /\ members' = members \cup {Member(Len(boards) + 1, u, "owner")}
             /\ resp' = Response("duplicate_board", u, b, 201, NONE)
        ELSE /\ resp' = Response("duplicate_board", u, b, st, NONE)
             /\ UNCHANGED <<boards, members>>
    /\ UNCHANGED <<invites, joined, req>>
    /\ UNCHANGED <<wsVars, authVars>>

(***************************************************************************)
(* routes/sharing.py                                                       *)
(***************************************************************************)
list_members(u, b) ==
    /\ Begin
    /\ resp' = Response("list_members", u, b, list_members_status(b, u), NONE)
    /\ UNCHANGED <<boards, members, invites, joined, req>>
    /\ UNCHANGED <<wsVars, authVars>>

\* expires_in_days is 0 (no expiry) or positive; max_uses 0 stands for None
create_invite(u, b) ==
    /\ Begin
    /\ LET st == get_board_as_owner(b, u) IN
        IF st # 200
        THEN /\ resp' = Response("create_invite", u, b, st, NONE)
             /\ UNCHANGED <<invites, joined>>
        ELSE \E role \in RoleInputs :
        IF role \notin Roles
        THEN /\ resp' = Response("create_invite", u, b, 400, "role")
             /\ UNCHANGED <<invites, joined>>
        ELSE \E expires \in BOOLEAN, max_uses \in MaxUsesInputs :
             /\ Len(invites) + 1 \in InviteIds
             /\ invites' = Append(invites,
                   [board_id |-> b, role |-> role, created_by |-> u,
                    expires_at |-> IF expires THEN "later" ELSE NONE,
                    expired |-> FALSE,
                    max_uses |-> max_uses, use_count |-> 0])
             /\ joined' = Append(joined, 0)
             /\ resp' = Response("create_invite", u, b, 201, NONE)
    /\ UNCHANGED <<boards, members, req>>
    /\ UNCHANGED <<wsVars, authVars>>

\* time passes: utcnow() is now later than the invite's expires_at
Expire(i) ==
    /\ i \in 1..Len(invites)
    /\ invites[i].expires_at # NONE
    /\ ~invites[i].expired
    /\ invites' = [invites EXCEPT ![i].expired = TRUE]
    /\ UNCHANGED <<boards, members, joined, req, resp, started>>
    /\ UNCHANGED <<wsVars, authVars>>

\* accept_invite up to its commit: the two selects and the checks; the
\* session then holds the new member and the invite with use_count + 1
accept_invite(p, u, i) ==
    /\ Begin
    /\ req[p].pc = "idle"
    /\ IF i \notin 1..Len(invites)
       THEN /\ resp' = Response("accept_invite", u, 0, 404, "invite")
            /\ UNCHANGED req
       ELSE LET inv == invites[i] IN
            IF inv.expired
            THEN /\ resp' = Response("accept_invite", u, inv.board_id, 400,
                                     "expired")
                 /\ UNCHANGED req
            ELSE IF inv.max_uses # 0 /\ inv.use_count >= inv.max_uses
            THEN /\ resp' = Response("accept_invite", u, inv.board_id, 400,
                                     "max_uses")
                 /\ UNCHANGED req
            ELSE IF boards[inv.board_id].deleted_at # NONE
            THEN /\ resp' = Response("accept_invite", u, inv.board_id, 404,
                                     "board")
                 /\ UNCHANGED req
            ELSE IF IsMember(inv.board_id, u)
            THEN /\ resp' = Response("accept_invite", u, inv.board_id, 200,
                                     "already")
                 /\ UNCHANGED req
            ELSE /\ req' = [req EXCEPT ![p] =
                              [pc |-> "commit", user |-> u, invite |-> i,
                               board_id |-> inv.board_id, role |-> inv.role,
                               use_count |-> inv.use_count + 1]]
                 /\ UNCHANGED resp
    /\ UNCHANGED <<boards, members, invites, joined>>
    /\ UNCHANGED <<wsVars, authVars>>

\* a table board_members without its primary key (board_id, user_id)
PrimaryKeyConflict_Never(b, u) == FALSE

\* the INSERT violates the primary key (board_id, user_id): IntegrityError
PrimaryKeyConflict(b, u) == IsMember(b, u)

\* await db.commit(): the INSERT of the member and the UPDATE of the
\* invite's use_count to the session's value, or IntegrityError and rollback
accept_commit(p) ==
    /\ req[p].pc = "commit"
    /\ LET r == req[p] IN
        IF PrimaryKeyConflict(r.board_id, r.user)
        THEN /\ resp' = Response("accept_invite", r.user, r.board_id, 200,
                                 "already_rollback")
             /\ UNCHANGED <<members, invites, joined>>
        ELSE /\ members' = members \cup {Member(r.board_id, r.user, r.role)}
             /\ invites' = [invites EXCEPT ![r.invite].use_count = r.use_count]
             /\ joined' = [joined EXCEPT ![r.invite] = @ + 1]
             /\ resp' = Response("accept_invite", r.user, r.board_id, 200,
                                 "joined")
    /\ req' = [req EXCEPT ![p] = NoRequest]
    /\ UNCHANGED <<boards, started>>
    /\ UNCHANGED <<wsVars, authVars>>

update_member_role(u, b) ==
    /\ Begin
    /\ LET st == get_board_as_owner(b, u) IN
        IF st # 200
        THEN /\ resp' = Response("update_member_role", u, b, st, NONE)
             /\ UNCHANGED members
        ELSE \E role \in RoleInputs :
        IF role \notin Roles
        THEN /\ resp' = Response("update_member_role", u, b, 400, "role")
             /\ UNCHANGED members
        ELSE \E t \in Targets :
        LET rows == {m \in members : RowMatches(m, b, t)} IN
        IF IsOwnerPath(boards[b].owner_id, t)
        THEN /\ resp' = Response("update_member_role", u, b, 400, "owner")
             /\ UNCHANGED members
        ELSE IF rows = {}
        THEN /\ resp' = Response("update_member_role", u, b, 404, "member")
             /\ UNCHANGED members
        ELSE /\ members' = (members \ rows) \cup
                              {[m EXCEPT !.role = role] : m \in rows}
             /\ resp' = Response("update_member_role", u, b, 200, NONE)
    /\ UNCHANGED <<boards, invites, joined, req>>
    /\ UNCHANGED <<wsVars, authVars>>

remove_member(u, b) ==
    /\ Begin
    /\ LET st == get_board_as_owner(b, u) IN
        IF st # 200
        THEN /\ resp' = Response("remove_member", u, b, st, NONE)
             /\ UNCHANGED members
        ELSE \E t \in Targets :
        LET rows == {m \in members : RowMatches(m, b, t)} IN
        IF IsOwnerPath(boards[b].owner_id, t)
        THEN /\ resp' = Response("remove_member", u, b, 400, "owner")
             /\ UNCHANGED members
        ELSE IF rows = {}
        THEN /\ resp' = Response("remove_member", u, b, 404, "member")
             /\ UNCHANGED members
        ELSE /\ members' = members \ rows
             /\ resp' = Response("remove_member", u, b, 204, NONE)
    /\ UNCHANGED <<boards, invites, joined, req>>
    /\ UNCHANGED <<wsVars, authVars>>

NextSharing ==
    \/ \E u \in Users :
          \/ create_board(u)
          \/ list_boards(u)
          \/ \E b \in BoardIds :
                \/ get_board(u, b)
                \/ update_board(u, b)
                \/ delete_board(u, b)
                \/ duplicate_board(u, b)
                \/ list_members(u, b)
                \/ create_invite(u, b)
                \/ update_member_role(u, b)
                \/ remove_member(u, b)
          \/ \E p \in Procs, i \in InviteIds : accept_invite(p, u, i)
    \/ \E p \in Procs : accept_commit(p)
    \/ \E i \in InviteIds : Expire(i)

SpecSharing == Init /\ [][NextSharing]_vars

\* the tables are left as they are by a step
TablesUnchanged == UNCHANGED <<boards, members, invites, joined>>

\* task p commits its accept_invite in this step
Commits(p) == req[p].pc = "commit" /\ req'[p].pc = "idle"

\* C23: for every invite with max_uses set, use_count never exceeds
\* max_uses and no more than max_uses memberships are created through the
\* invite, however the accept_invite requests interleave.
C23_MaxUsesRespected ==
    \A i \in 1..Len(invites) :
        invites[i].max_uses # 0 =>
            /\ invites[i].use_count <= invites[i].max_uses
            /\ joined[i] <= invites[i].max_uses

\* C24: accept_invite is idempotent per user.  There is never a second
\* membership row for a board and a user.  A request by a user who is a
\* member already, and a commit that finds the user added meanwhile
\* (IntegrityError, rollback), leave the tables as they are: no row is
\* added, no role changes, use_count stays.  use_count changes only in a
\* commit that adds the row of a user who had none, and a commit changes no
\* existing row.
C24_StateOk ==
    \A m1, m2 \in members :
        (m1.board_id = m2.board_id /\ m1.user_id = m2.user_id) => m1 = m2

C24_StepOk ==
    /\ \A p \in Procs :
          /\ (Commits(p) /\ IsMember(req[p].board_id, req[p].user)) =>
                TablesUnchanged
          /\ Commits(p) => members \subseteq members'
          /\ (req[p].pc = "idle" /\ req'[p].pc = "commit") =>
                /\ ~IsMember(req'[p].board_id, req'[p].user)
                /\ TablesUnchanged
    /\ (started' = started + 1 /\ req' = req /\ resp'.op = "accept_invite")
          => TablesUnchanged
    /\ (\E i \in 1..Len(invites) :
            invites'[i].use_count # invites[i].use_count) =>
          \E p \in Procs :
              /\ Commits(p)
              /\ ~IsMember(req[p].board_id, req[p].user)
              /\ members' = members \cup
                    {Member(req[p].board_id, req[p].user, req[p].role)}
              /\ joined'[req[p].invite] = joined[req[p].invite] + 1

C24_AcceptIdempotent == []C24_StateOk /\ [][C24_StepOk]_vars

\* a user has lost the race against its own other request: the commit met
\* the IntegrityError, and the invite was used once
C24_Witness ==
    /\ resp.op = "accept_invite" /\ resp.detail = "already_rollback"
    /\ Len(invites) = 1 /\ invites[1].use_count = 1 /\ joined[1] = 1
    /\ Cardinality({m \in members : m.user_id = resp.user}) = 1

\* C25: the owner of every board has a membership row with role 'owner';
\* only the owner holds that role; every other role is 'editor' or
\* 'viewer'; and update_member_role and remove_member answer 403 or 404 to
\* whoever is not the board's owner.
C25_OwnerProtected ==
    /\ \A b \in 1..Len(boards) :
          Member(b, boards[b].owner_id, "owner") \in members
    /\ \A m \in members :
          /\ m.role \in Roles \cup {"owner"}
          /\ m.role = "owner" => boards[m.board_id].owner_id = m.user_id
    /\ (/\ resp.op \in {"update_member_role", "remove_member"}
        /\ Exists(resp.board)
        /\ resp.user # boards[resp.board].owner_id)
          => resp.status \in {403, 404}

\* the requests on a board that get_board_with_access, get_board_as_owner
\* or list_members' own query answer
BoardOps == {"get_board", "update_board", "delete_board", "duplicate_board",
             "list_members", "create_invite"}

\* a response of accept_invite given by its reads and checks, not by the
\* commit of a request that was in flight
AnsweredByChecks ==
    resp.op = "accept_invite" /\ resp.detail \notin {"joined", "already_rollback"}

\* what holds of a deleted board whatever accept_invite answers
DeletedBoardHidden ==
    /\ \A b \in 1..Len(boards), u \in Users :
          Deleted(b) =>
              /\ get_board_with_access(b, u, FALSE) = 404
              /\ get_board_with_access(b, u, TRUE) = 404
              /\ get_board_as_owner(b, u) = 404
              /\ list_members_status(b, u) = 404
              /\ b \notin ListBoards(u)
    /\ (resp.op \in BoardOps /\ Deleted(resp.board)) =>
          \/ resp.status = 404
          \/ (resp.op = "delete_board" /\ resp.status = 204)
    /\ resp.op = "list_boards" => \A b \in resp.body : ~Deleted(b)

\* C26, as stated: a deleted board answers 404 to get, update, delete,
\* duplicate, member listing and invite creation, list_boards omits it, and
\* accept_invite for it answers 404.
C26_DeletedAlways404 ==
    /\ DeletedBoardHidden
    /\ (AnsweredByChecks /\ Deleted(resp.board)) => resp.status = 404

\* C26, amended: as above, except that accept_invite for a deleted board
\* answers 404, or 400 when the invite is expired or used up (those checks
\* come first); no request that starts after the deletion reaches its
\* commit, so none adds a member; and deleted_at is never cleared.  The
\* members of a deleted board change only by the commit of an accept_invite
\* that had passed its checks before the deletion.
C26_StateOk ==
    /\ DeletedBoardHidden
    /\ (AnsweredByChecks /\ Deleted(resp.board)) =>
          \/ resp.status = 404
          \/ (resp.status = 400 /\ resp.detail \in {"expired", "max_uses"})

C26_StepOk ==
    /\ \A b \in 1..Len(boards) :
          Deleted(b) =>
              /\ Deleted(b)'
              /\ {m \in members' : m.board_id = b}
                    # {m \in members : m.board_id = b} =>
                    \E p \in Procs : Commits(p) /\ req[p].board_id = b
    /\ \A p \in Procs :
          (req[p].pc = "idle" /\ req'[p].pc = "commit") =>
              ~Deleted(req'[p].board_id)

C26_DeletedStaysHidden == []C26_StateOk /\ [][C26_StepOk]_vars

\* accept_invite has answered 404 for a board deleted before the request,
\* and the board has no member but its owner
C26_Witness ==
    /\ resp.op = "accept_invite" /\ resp.detail = "board"
    /\ resp.status = 404 /\ Deleted(resp.board)
    /\ \A m \in members : m.board_id = resp.board => m.role = "owner"

====
